---- MODULE Spec2Model ----
(***************************************************************************)
(* The Index page of the screening application (its newer revision, which *)
(* fuses the questionnaire score with a video-model prediction), the hook  *)
(* that persists the assessment, and the scoring core the page calls.      *)
(*                                                                         *)
(* Scores are integers 0..100; confidences are held in percent (0.7 = 70). *)
(* A JavaScript value that may be null/undefined is a sequence of length   *)
(* 0 (absent) or 1 (present).                                              *)
(***************************************************************************)
EXTENDS Integers, Sequences, FiniteSets, TLC

VARIABLES
    appState,          \* useState<AppState>
    selectedRole,      \* useState<Role | null>
    scoringResult,     \* useState<ScoringResult | null>
    parentMetadata,    \* useState<ParentMetadata | null>
    user,              \* useState<User | null>
    isAuthenticated,   \* useState(false)
    patientId,         \* useState<string>('')
    excelAnswers,      \* useState<Record<string, AnswerValue>>({})
    excelData,         \* useState<Record<string, any> | null>(null)
    showResetDialog,   \* useState(false)
    assessmentData,    \* useUserAssessmentData: the loaded row, or null
    loadingAssessmentData, \* useUserAssessmentData: loading
    effectDue,         \* the reload effect's dependencies changed since it last ran
    db,                \* the persisted row of each account, or null
    saves,             \* saveAssessmentData calls in flight, each with its handler's closure
    crashed,           \* an exception escaped a render-phase effect: the page is unmounted
    toast,             \* useToast: the title of the toast shown last, or null
    questionnaire,     \* a mounted Questionnaire: its props and useState values, or null
    called             \* the callback a mounted Questionnaire called last, or null

questionnaireVars == <<questionnaire, called>>

pageVars == <<appState, selectedRole, scoringResult, parentMetadata, user,
          isAuthenticated, patientId, excelAnswers, excelData, showResetDialog,
          assessmentData, loadingAssessmentData, effectDue, db, saves, crashed, toast>>

vars == <<questionnaireVars, pageVars>>

----------------------------------------------------------------------------
\* Bounds

\* saveAssessmentData calls that may be in flight at once
MaxInFlight == 1

\* How far outside 0..100 a model score may lie
ScoreMargin == 2

\* How far outside 0..100 percent a model confidence may lie
ConfidenceMargin == 50

----------------------------------------------------------------------------
\* Optional values

Null == <<>>
Some(x) == <<x>>
IsNull(o) == o = <<>>
Val(o) == o[1]

\* JavaScript truthiness of an optional number: null, undefined and 0 are falsy.
Truthy(o) == ~IsNull(o) /\ Val(o) # 0

\* JavaScript `a || b` on optional numbers.
OrElse(a, b) == IF Truthy(a) THEN a ELSE b

Min(a, b) == IF a < b THEN a ELSE b
Max(a, b) == IF a > b THEN a ELSE b
Clamp(x, lo, hi) == Max(lo, Min(hi, x))

\* Round-half-up of the non-negative ratio num/den.
RoundDiv(num, den) == (2 * num + den) \div (2 * den)

----------------------------------------------------------------------------
\* Static data

Roles == {"individual", "parent", "clinician"}

AnswerValues == {"never", "rarely", "sometimes", "often", "always"}

individualQuestions == <<"ind_1", "ind_2", "ind_3">>
parentQuestions == <<"par_1", "par_2", "par_20">>

\* The question list the page hands to Questionnaire for a role.
QuestionsFor(role) == IF role = "individual" THEN individualQuestions ELSE parentQuestions

getQuestionWeights(role) ==
    CASE role = "individual" -> [ind_1 |-> 1, ind_2 |-> 1, ind_3 |-> 2]
      [] role = "parent"     -> [par_1 |-> 1, par_2 |-> 2, par_20 |-> 3]
      [] OTHER               -> [par_1 |-> 2, par_2 |-> 1, par_20 |-> 1]

category(questionId) ==
    CASE questionId \in {"ind_1", "par_1"} -> "social"
      [] questionId \in {"ind_2", "par_2"} -> "sensory"
      [] OTHER -> "routine"

actionFor(cat) ==
    CASE cat = "social"  -> "practice social stories"
      [] cat = "sensory" -> "schedule sensory breaks"
      [] OTHER           -> "keep a visual routine"

----------------------------------------------------------------------------
\* Scoring core

\* Mutant: the label "always" is missing from the table and scores 0.
normalize_missingAlways(value) ==
    CASE value = "never"     -> 0
      [] value = "rarely"    -> 1
      [] value = "sometimes" -> 2
      [] value = "often"     -> 3
      [] OTHER               -> 0

normalize(value) ==
    CASE value = "never"     -> 0
      [] value = "rarely"    -> 1
      [] value = "sometimes" -> 2
      [] value = "often"     -> 3
      [] value = "always"    -> 4

MaxAnswer == 4
FamilyHistoryBoost == 10
TopK == 2
MildFrom == 25
ModerateFrom == 50
HighFrom == 75
QuestionnaireWeightPct == 60
ModelWeightPct == 40
DefaultConfidencePct == 70

RECURSIVE weightedSum(_, _)
weightedSum(answerArray, weights) ==
    IF answerArray = <<>> THEN 0
    ELSE normalize(Head(answerArray).value) * weights[Head(answerArray).questionId]
         + weightedSum(Tail(answerArray), weights)

RECURSIVE weightSum(_, _)
weightSum(answerArray, weights) ==
    IF answerArray = <<>> THEN 0
    ELSE weights[Head(answerArray).questionId] + weightSum(Tail(answerArray), weights)

\* rounded(sum / weightSum / 4 * 100), answered questions only.
rawAggregate(answerArray, weights) ==
    RoundDiv(100 * weightedSum(answerArray, weights),
             MaxAnswer * weightSum(answerArray, weights))

aggregate(answerArray, weights, hasFamilyHistory) ==
    IF hasFamilyHistory
    THEN Clamp(rawAggregate(answerArray, weights) + FamilyHistoryBoost, 0, 100)
    ELSE Clamp(rawAggregate(answerArray, weights), 0, 100)

contribution(answer, weights) == normalize(answer.value) * weights[answer.questionId]

\* Mutant: on a tie the latest of the largest contributions is taken.
RECURSIVE bestIndex_latestOnTie(_, _, _, _)
bestIndex_latestOnTie(answerArray, weights, i, best) ==
    IF i > Len(answerArray) THEN best
    ELSE bestIndex_latestOnTie(answerArray, weights, i + 1,
                   IF contribution(answerArray[i], weights)
                        >= contribution(answerArray[best], weights)
                   THEN i ELSE best)

\* The index of the largest contribution, the earliest on a tie.
RECURSIVE bestIndex(_, _, _, _)
bestIndex(answerArray, weights, i, best) ==
    IF i > Len(answerArray) THEN best
    ELSE bestIndex(answerArray, weights, i + 1,
                   IF contribution(answerArray[i], weights)
                        > contribution(answerArray[best], weights)
                   THEN i ELSE best)

RemoveAt(s, i) == SubSeq(s, 1, i - 1) \o SubSeq(s, i + 1, Len(s))

RECURSIVE rankAnswers(_, _, _)
rankAnswers(answerArray, weights, k) ==
    IF k = 0 \/ answerArray = <<>> THEN <<>>
    ELSE LET b == bestIndex(answerArray, weights, 1, 1)
         IN  <<answerArray[b]>> \o rankAnswers(RemoveAt(answerArray, b), weights, k - 1)

rank(answerArray, weights) ==
    LET top == rankAnswers(answerArray, weights, TopK)
    IN  [i \in 1..Len(top) |->
            [question |-> top[i].questionId,
             action   |-> actionFor(category(top[i].questionId))]]

classify(score) ==
    CASE score < MildFrom     -> [level |-> "low",      label |-> "Low Support Needs"]
      [] score < ModerateFrom -> [level |-> "mild",     label |-> "Mild Support Needs"]
      [] score < HighFrom     -> [level |-> "moderate", label |-> "Moderate Support Needs"]
      [] OTHER                -> [level |-> "high",     label |-> "High Support Needs"]

getSeverityFromScore(score) == classify(score)

\* Mutant: the blend is neither clamped nor is the model score.
calculateFusedScore_unclamped(questionnaireScore, modelScore, modelConfidence) ==
    IF IsNull(modelScore) THEN questionnaireScore
    ELSE (QuestionnaireWeightPct * questionnaireScore
            + ModelWeightPct * Val(modelScore) + 50) \div 100

\* Mutant: the model's share of the blend is scaled by the confidence.
calculateFusedScore_confidenceScaled(questionnaireScore, modelScore, modelConfidence) ==
    IF IsNull(modelScore) THEN questionnaireScore
    ELSE Clamp((QuestionnaireWeightPct * questionnaireScore * 100
                  + ModelWeightPct * Clamp(Val(modelConfidence), 0, 100)
                      * Clamp(Val(modelScore), 0, 100)
                  + 5000) \div 10000,
               0, 100)

\* fuse: modelScore absent is a no-op; otherwise the fixed 60/40 blend of the
\* questionnaire score and the clamped model score, rounded half-up and clamped.
calculateFusedScore(questionnaireScore, modelScore, modelConfidence) ==
    IF IsNull(modelScore) THEN questionnaireScore
    ELSE Clamp((QuestionnaireWeightPct * questionnaireScore
                  + ModelWeightPct * Clamp(Val(modelScore), 0, 100) + 50) \div 100,
               0, 100)

Failure(name) == [ok |-> FALSE, error |-> name]
Success(value) == [ok |-> TRUE, value |-> value]

calculateScore(answerArray, weights, hasFamilyHistory, videoPrediction) ==
    IF answerArray = <<>> THEN Failure("InsufficientDataError")
    ELSE LET normalizedScore == aggregate(answerArray, weights, hasFamilyHistory)
             fusedScore ==
                 IF IsNull(videoPrediction) THEN Null
                 ELSE Some(calculateFusedScore(
                          normalizedScore,
                          Some(Val(videoPrediction).prediction_score),
                          IF IsNull(Val(videoPrediction).confidence)
                          THEN Some(DefaultConfidencePct)
                          ELSE Val(videoPrediction).confidence))
             severity == classify(IF IsNull(fusedScore) THEN normalizedScore
                                  ELSE Val(fusedScore))
         IN  Success([normalizedScore |-> normalizedScore,
                      fusedScore      |-> fusedScore,
                      severity        |-> severity.level,
                      severityLabel   |-> severity.label,
                      topContributors |-> rank(answerArray, weights)])

----------------------------------------------------------------------------
\* Inputs

Users == {"u1"}
PatientIds == {"P1"}

Range(s) == {s[i] : i \in 1..Len(s)}

\* Every Record<string, AnswerValue> over a question list and a set of labels,
\* the empty object and the partly answered ones included.
AnswerSets(questions, labels) ==
    UNION {[S -> labels] : S \in SUBSET Range(questions)}

\* Object.entries(answers), in question order.
RECURSIVE entriesIn(_, _)
entriesIn(answers, questions) ==
    IF questions = <<>> THEN <<>>
    ELSE (IF Head(questions) \in DOMAIN answers
          THEN <<[questionId |-> Head(questions), value |-> answers[Head(questions)]]>>
          ELSE <<>>)
         \o entriesIn(answers, Tail(questions))

\* Mutant: every question of the list is entered, the unanswered ones as "never".
ObjectEntries_padded(answers) ==
    LET questions == IF DOMAIN answers \subseteq Range(individualQuestions)
                     THEN individualQuestions ELSE parentQuestions
    IN  IF answers = <<>> THEN <<>>
        ELSE [i \in 1..Len(questions) |->
                [questionId |-> questions[i],
                 value |-> IF questions[i] \in DOMAIN answers
                           THEN answers[questions[i]] ELSE "never"]]

ObjectEntries(answers) ==
    entriesIn(answers, individualQuestions \o parentQuestions)

Prediction(score, confidence) == [prediction_score |-> score, confidence |-> confidence]

Metadata(videoPrediction) == [childName |-> "Alex", videoPrediction |-> videoPrediction]

\* metadata?.videoPrediction
VideoPredictionOf(metadata) ==
    IF IsNull(metadata) THEN Null ELSE Val(metadata).videoPrediction

\* The inputs the page is driven with: the empty answer object, one question
\* answered, and every question answered with all "always" or with "always"
\* for the first question only.
AppAnswers(role) ==
    LET questions == QuestionsFor(role) IN
    {<<>>,
     [q \in {questions[1]} |-> "always"],
     [q \in Range(questions) |-> "always"],
     [q \in Range(questions) |-> IF q = questions[1] THEN "always" ELSE "never"]}
AppExcelAnswers == {[par_1 |-> "always"]}
AppPredictions == {Prediction(0, Some(90)), Prediction(40, Some(90))}
AppMetadata == {Null} \cup {Some(Metadata(Some(p))) : p \in AppPredictions}

\* A row of user_assessment_data.
Row(role, pid, childData, answers, qScore, modelScore, fusedScore, complete) ==
    [role |-> role, patient_id |-> pid, child_data |-> childData,
     last_assessment_answers |-> answers, questionnaire_score |-> qScore,
     model_score |-> modelScore, fused_score |-> fusedScore,
     assessment_complete |-> complete]

\* Rows an account may hold before the page is opened: none; a row written
\* before the score columns existed (no fused score, assessment_complete at its
\* default); a completed row without a fused score; and a completed row whose
\* answer object is empty.
InitialRows ==
    {Null,
     Some(Row("parent", "P1", Null, Some([par_1 |-> "always"]), Some(100), Null, Null, FALSE)),
     Some(Row("clinician", "P1", Null, Some([par_1 |-> "always", par_2 |-> "never"]),
              Some(67), Null, Null, TRUE)),
     Some(Row("individual", "P1", Null, Some(<<>>), Some(0), Null, Some(0), TRUE))}

----------------------------------------------------------------------------
\* useUserAssessmentData

hasExistingData == ~IsNull(assessmentData)

\* The page below the auth gate and the loading screen is rendered and takes a
\* user event: a pending effect is flushed before the event is handled.
Rendered == isAuthenticated /\ ~loadingAssessmentData /\ ~crashed /\ ~effectDue

Init ==
    /\ appState = "role-selection"
    /\ selectedRole = Null
    /\ scoringResult = Null
    /\ parentMetadata = Null
    /\ user = Null
    /\ isAuthenticated = FALSE
    /\ patientId = ""
    /\ excelAnswers = <<>>
    /\ excelData = Null
    /\ showResetDialog = FALSE
    /\ assessmentData = Null
    /\ loadingAssessmentData = FALSE
    /\ effectDue = FALSE
    /\ db \in [Users -> InitialRows]
    /\ saves = <<>>
    /\ crashed = FALSE
    /\ toast = Null
    /\ questionnaire = <<>>
    /\ called = <<>>

\* The hook starts fetching the row of the user it is given.
handleAuthSuccess(authenticatedUser) ==
    /\ ~isAuthenticated /\ ~crashed
    /\ user' = Some(authenticatedUser)
    /\ isAuthenticated' = TRUE
    /\ loadingAssessmentData' = TRUE
    /\ effectDue' = TRUE
    /\ UNCHANGED <<appState, selectedRole, scoringResult, parentMetadata, patientId,
                   excelAnswers, excelData, showResetDialog, assessmentData, db,
                   saves, crashed>>
    /\ UNCHANGED <<toast, questionnaireVars>>

\* The hook's fetch resolves.
LoadAssessmentData ==
    /\ loadingAssessmentData /\ ~IsNull(user) /\ ~crashed
    /\ assessmentData' = db[Val(user)]
    /\ loadingAssessmentData' = FALSE
    /\ effectDue' = TRUE
    /\ UNCHANGED <<appState, selectedRole, scoringResult, parentMetadata, user,
                   isAuthenticated, patientId, excelAnswers, excelData,
                   showResetDialog, db, saves, crashed>>
    /\ UNCHANGED <<toast, questionnaireVars>>

----------------------------------------------------------------------------
\* Index: the reload effect

\* storedModelScore ? { prediction_score: storedModelScore, confidence: 0.7 } : undefined
storedVideoPrediction(row) ==
    IF Truthy(row.model_score)
    THEN Some(Prediction(Val(row.model_score), Some(DefaultConfidencePct)))
    ELSE Null

\* Mutant: the stored fused score is written over the result, the severity is not.
reconstructResult_keepSeverity(row) ==
    LET calc == calculateScore(ObjectEntries(Val(row.last_assessment_answers)),
                               getQuestionWeights(row.role), FALSE,
                               storedVideoPrediction(row))
    IN  IF ~calc.ok THEN calc
        ELSE IF ~IsNull(row.fused_score)
        THEN Success([calc.value EXCEPT !.fusedScore = row.fused_score])
        ELSE calc

\* Mutant: a row whose answers cannot be scored is shown with its stored scores.
reconstructResult_fallback(row) ==
    LET calc == calculateScore(ObjectEntries(Val(row.last_assessment_answers)),
                               getQuestionWeights(row.role), FALSE,
                               storedVideoPrediction(row))
        stored == IF IsNull(row.fused_score) THEN 0 ELSE Val(row.fused_score)
    IN  IF ~calc.ok
        THEN Success([normalizedScore |-> stored,
                      fusedScore      |-> row.fused_score,
                      severity        |-> getSeverityFromScore(stored).level,
                      severityLabel   |-> getSeverityFromScore(stored).label,
                      topContributors |-> <<>>])
        ELSE IF ~IsNull(row.fused_score)
        THEN Success([calc.value EXCEPT
                 !.fusedScore = row.fused_score,
                 !.severity = getSeverityFromScore(Val(row.fused_score)).level,
                 !.severityLabel = getSeverityFromScore(Val(row.fused_score)).label])
        ELSE calc

\* The result the effect rebuilds from a stored row with an answer object.
reconstructResult(row) ==
    LET calc == calculateScore(ObjectEntries(Val(row.last_assessment_answers)),
                               getQuestionWeights(row.role), FALSE,
                               storedVideoPrediction(row))
    IN  IF ~calc.ok THEN calc
        ELSE IF ~IsNull(row.fused_score)
        THEN Success([calc.value EXCEPT
                 !.fusedScore = row.fused_score,
                 !.severity = getSeverityFromScore(Val(row.fused_score)).level,
                 !.severityLabel = getSeverityFromScore(Val(row.fused_score)).label])
        ELSE calc

redirectCondition ==
    /\ ~loadingAssessmentData
    /\ hasExistingData
    /\ Val(assessmentData).assessment_complete

ReloadEffect ==
    /\ effectDue /\ ~crashed
    /\ effectDue' = FALSE
    /\ IF ~redirectCondition
       THEN UNCHANGED <<appState, selectedRole, scoringResult, parentMetadata,
                        patientId, crashed, toast>>
       ELSE LET row == Val(assessmentData) IN
            IF IsNull(row.last_assessment_answers)
            THEN /\ selectedRole' = Some(row.role)
                 /\ patientId' = row.patient_id
                 /\ UNCHANGED <<appState, scoringResult, parentMetadata, crashed, toast>>
            ELSE LET rebuilt == reconstructResult(row) IN
                 IF ~rebuilt.ok
                 THEN /\ crashed' = TRUE
                      /\ UNCHANGED <<appState, selectedRole, scoringResult,
                                     parentMetadata, patientId, toast>>
                 ELSE /\ selectedRole' = Some(row.role)
                      /\ patientId' = row.patient_id
                      /\ scoringResult' = Some(rebuilt.value)
                      /\ parentMetadata' = IF IsNull(row.child_data) THEN parentMetadata
                                           ELSE row.child_data
                      /\ appState' = "dashboard"
                      /\ toast' = Some("Welcome back!")
                      /\ UNCHANGED crashed
    /\ UNCHANGED <<user, isAuthenticated, excelAnswers, excelData, showResetDialog,
                   assessmentData, loadingAssessmentData, db, saves>>
    /\ UNCHANGED questionnaireVars

----------------------------------------------------------------------------
\* Index: handlers

handleLogout ==
    /\ Rendered
    /\ user' = Null
    /\ isAuthenticated' = FALSE
    /\ selectedRole' = Null
    /\ scoringResult' = Null
    /\ parentMetadata' = Null
    /\ patientId' = ""
    /\ excelAnswers' = <<>>
    /\ excelData' = Null
    /\ appState' = "role-selection"
    \* the hook drops the row of the user that left
    /\ assessmentData' = Null
    /\ effectDue' = TRUE
    /\ UNCHANGED <<showResetDialog, loadingAssessmentData, db, saves, crashed>>
    /\ UNCHANGED <<toast, questionnaireVars>>

openResetDialog ==
    /\ Rendered /\ hasExistingData /\ ~showResetDialog
    /\ showResetDialog' = TRUE
    /\ UNCHANGED <<appState, selectedRole, scoringResult, parentMetadata, user,
                   isAuthenticated, patientId, excelAnswers, excelData,
                   assessmentData, loadingAssessmentData, effectDue, db, saves, crashed>>
    /\ UNCHANGED <<toast, questionnaireVars>>

cancelResetDialog ==
    /\ Rendered /\ showResetDialog
    /\ showResetDialog' = FALSE
    /\ UNCHANGED <<appState, selectedRole, scoringResult, parentMetadata, user,
                   isAuthenticated, patientId, excelAnswers, excelData,
                   assessmentData, loadingAssessmentData, effectDue, db, saves, crashed>>
    /\ UNCHANGED <<toast, questionnaireVars>>

\* Mutant: the page state is reset whatever clearAssessmentData returned.
handleResetData_resetsOnFailure(success) ==
    /\ Rendered /\ showResetDialog /\ ~IsNull(user)
    /\ IF success
       THEN /\ db' = [db EXCEPT ![Val(user)] = Null]
            /\ assessmentData' = Null
            /\ effectDue' = TRUE
            /\ toast' = Some("Data Reset")
       ELSE UNCHANGED <<db, assessmentData, effectDue, toast>>
    /\ selectedRole' = Null
    /\ scoringResult' = Null
    /\ parentMetadata' = Null
    /\ patientId' = ""
    /\ excelAnswers' = <<>>
    /\ excelData' = Null
    /\ appState' = "role-selection"
    /\ showResetDialog' = FALSE
    /\ UNCHANGED <<user, isAuthenticated, loadingAssessmentData, saves, crashed>>
    /\ UNCHANGED questionnaireVars

\* clearAssessmentData deletes the account's row and reports whether it did.
handleResetData(success) ==
    /\ Rendered /\ showResetDialog /\ ~IsNull(user)
    /\ IF success
       THEN /\ db' = [db EXCEPT ![Val(user)] = Null]
            /\ assessmentData' = Null
            /\ effectDue' = TRUE
            /\ selectedRole' = Null
            /\ scoringResult' = Null
            /\ parentMetadata' = Null
            /\ patientId' = ""
            /\ excelAnswers' = <<>>
            /\ excelData' = Null
            /\ appState' = "role-selection"
            /\ toast' = Some("Data Reset")
       ELSE UNCHANGED <<db, assessmentData, effectDue, selectedRole, scoringResult,
                        parentMetadata, patientId, excelAnswers, excelData, appState,
                        toast>>
    /\ showResetDialog' = FALSE
    /\ UNCHANGED <<user, isAuthenticated, loadingAssessmentData, saves, crashed>>
    /\ UNCHANGED questionnaireVars

\* Mutant: the stored role is not compared with the selected one.
handleRoleSelection_unlocked(role) ==
    /\ Rendered /\ appState = "role-selection"
    /\ selectedRole' = Some(role)
    /\ patientId' = IF hasExistingData THEN Val(assessmentData).patient_id
                    ELSE patientId
    /\ appState' = "patient-id"
    /\ UNCHANGED <<scoringResult, parentMetadata, user, isAuthenticated, excelAnswers,
                   excelData, showResetDialog, assessmentData, loadingAssessmentData,
                   effectDue, db, saves, crashed>>
    /\ UNCHANGED <<toast, questionnaireVars>>

handleRoleSelection(role) ==
    /\ Rendered /\ appState = "role-selection"
    /\ selectedRole' = Some(role)
    /\ IF hasExistingData /\ Val(assessmentData).role # role
       THEN /\ toast' = Some("Role Locked")
            /\ UNCHANGED <<patientId, appState>>
       ELSE /\ patientId' = IF hasExistingData THEN Val(assessmentData).patient_id
                            ELSE patientId
            /\ appState' = "patient-id"
            /\ UNCHANGED toast
    /\ UNCHANGED <<scoringResult, parentMetadata, user, isAuthenticated, excelAnswers,
                   excelData, showResetDialog, assessmentData, loadingAssessmentData,
                   effectDue, db, saves, crashed>>
    /\ UNCHANGED questionnaireVars

\* Mutant: every role goes from the patient id to the questionnaire.
handlePatientIdConfirm_noUpload(confirmedPatientId) ==
    /\ Rendered /\ appState = "patient-id" /\ ~IsNull(selectedRole)
    /\ patientId' = confirmedPatientId
    /\ appState' = "questionnaire"
    /\ UNCHANGED <<selectedRole, scoringResult, parentMetadata, user, isAuthenticated,
                   excelAnswers, excelData, showResetDialog, assessmentData,
                   loadingAssessmentData, effectDue, db, saves, crashed>>
    /\ UNCHANGED <<toast, questionnaireVars>>

handlePatientIdConfirm(confirmedPatientId) ==
    /\ Rendered /\ appState = "patient-id" /\ ~IsNull(selectedRole)
    /\ patientId' = confirmedPatientId
    /\ appState' = IF selectedRole = Some("clinician") THEN "excel-upload"
                   ELSE "questionnaire"
    /\ UNCHANGED <<selectedRole, scoringResult, parentMetadata, user, isAuthenticated,
                   excelAnswers, excelData, showResetDialog, assessmentData,
                   loadingAssessmentData, effectDue, db, saves, crashed>>
    /\ UNCHANGED <<toast, questionnaireVars>>

handleExcelComplete(answers, data) ==
    /\ Rendered /\ appState = "excel-upload" /\ selectedRole = Some("clinician")
    /\ excelAnswers' = answers
    /\ excelData' = data
    /\ appState' = "questionnaire"
    /\ UNCHANGED <<selectedRole, scoringResult, parentMetadata, user, isAuthenticated,
                   patientId, showResetDialog, assessmentData, loadingAssessmentData,
                   effectDue, db, saves, crashed>>
    /\ UNCHANGED <<toast, questionnaireVars>>

\* ExcelUpload's onBack
excelUploadBack ==
    /\ Rendered /\ appState = "excel-upload" /\ selectedRole = Some("clinician")
    /\ appState' = "patient-id"
    /\ UNCHANGED <<selectedRole, scoringResult, parentMetadata, user, isAuthenticated,
                   patientId, excelAnswers, excelData, showResetDialog, assessmentData,
                   loadingAssessmentData, effectDue, db, saves, crashed>>
    /\ UNCHANGED <<toast, questionnaireVars>>

\* Questionnaire's onBack
questionnaireBack ==
    /\ Rendered /\ appState = "questionnaire" /\ ~IsNull(selectedRole)
    /\ appState' = IF selectedRole = Some("clinician") THEN "excel-upload"
                   ELSE "patient-id"
    /\ UNCHANGED <<selectedRole, scoringResult, parentMetadata, user, isAuthenticated,
                   patientId, excelAnswers, excelData, showResetDialog, assessmentData,
                   loadingAssessmentData, effectDue, db, saves, crashed>>
    /\ UNCHANGED <<toast, questionnaireVars>>

\* Mutant: the role is not looked at.
hasFamilyHistory_anyRole(role, answers) ==
    /\ "par_20" \in DOMAIN answers
    /\ answers["par_20"] = "always"

\* selectedRole === 'parent' && answers['par_20'] === 'always'
hasFamilyHistory(role, answers) ==
    /\ role = "parent"
    /\ "par_20" \in DOMAIN answers
    /\ answers["par_20"] = "always"

\* Mutant: an absent prediction counts as a model score of 0.
modelScoreOf_absentIsZero(videoPrediction) ==
    IF IsNull(videoPrediction) THEN Some(0)
    ELSE Some(Val(videoPrediction).prediction_score)

\* videoPrediction?.prediction_score || null
modelScoreOf(videoPrediction) ==
    IF IsNull(videoPrediction) THEN Null
    ELSE OrElse(Some(Val(videoPrediction).prediction_score), Null)

\* videoPrediction?.confidence || 0.7
modelConfidenceOf(videoPrediction) ==
    IF IsNull(videoPrediction) THEN Some(DefaultConfidencePct)
    ELSE OrElse(Val(videoPrediction).confidence, Some(DefaultConfidencePct))

\* Mutant: the fused score is written over the result, the severity is not.
completeResult_keepSeverity(role, answers, metadata) ==
    LET videoPrediction == VideoPredictionOf(metadata)
        calc == calculateScore(ObjectEntries(answers), getQuestionWeights(role),
                               hasFamilyHistory(role, answers), videoPrediction)
    IN  IF ~calc.ok THEN calc
        ELSE Success([calc.value EXCEPT
                 !.fusedScore = Some(calculateFusedScore(
                                         calc.value.normalizedScore,
                                         modelScoreOf(videoPrediction),
                                         modelConfidenceOf(videoPrediction)))])

\* The result handleQuestionnaireComplete builds: calculateScore's result with
\* the fused score and the severity of the fused score written over it.
completeResult(role, answers, metadata) ==
    LET videoPrediction == VideoPredictionOf(metadata)
        calc == calculateScore(ObjectEntries(answers), getQuestionWeights(role),
                               hasFamilyHistory(role, answers), videoPrediction)
    IN  IF ~calc.ok THEN calc
        ELSE LET fusedScore == calculateFusedScore(calc.value.normalizedScore,
                                                   modelScoreOf(videoPrediction),
                                                   modelConfidenceOf(videoPrediction))
                 fusedSeverity == getSeverityFromScore(fusedScore)
             IN  Success([calc.value EXCEPT
                     !.fusedScore = Some(fusedScore),
                     !.severity = fusedSeverity.level,
                     !.severityLabel = fusedSeverity.label])

\* The arguments of saveAssessmentData, as the row they are stored in.
savedRow(role, pid, answers, metadata, result) ==
    Row(role, pid, metadata, Some(answers),
        Some(result.normalizedScore),
        IF Truthy(modelScoreOf(VideoPredictionOf(metadata)))
        THEN modelScoreOf(VideoPredictionOf(metadata)) ELSE Null,
        result.fusedScore,
        TRUE)

\* Up to the await: the result is set and the save is started. calculateScore
\* throwing rejects the handler's promise after setParentMetadata was called.
handleQuestionnaireComplete(answers, metadata) ==
    /\ Rendered /\ appState = "questionnaire" /\ ~IsNull(selectedRole)
    /\ Len(saves) < MaxInFlight
    /\ LET role == Val(selectedRole)
           built == completeResult(role, answers, metadata)
       IN  /\ parentMetadata' = IF role \in {"parent", "clinician"} /\ ~IsNull(metadata)
                                THEN metadata ELSE parentMetadata
           /\ IF ~built.ok
              THEN UNCHANGED <<scoringResult, saves, appState>>
              ELSE /\ scoringResult' = Some(built.value)
                   /\ IF ~IsNull(user)
                      THEN /\ saves' = Append(saves,
                                  [user |-> Val(user),
                                   row  |-> savedRow(role, patientId, answers,
                                                     metadata, built.value),
                                   result |-> built.value,
                                   modelConfidence |->
                                       modelConfidenceOf(VideoPredictionOf(metadata))])
                           /\ UNCHANGED appState
                      ELSE /\ appState' = "results"
                           /\ UNCHANGED saves
    /\ UNCHANGED <<selectedRole, user, isAuthenticated, patientId, excelAnswers,
                   excelData, showResetDialog, assessmentData, loadingAssessmentData,
                   effectDue, db, crashed>>
    /\ UNCHANGED <<toast, questionnaireVars>>

\* saveAssessmentData resolves: on success the row is stored and the hook holds
\* it; either way the handler continues with setAppState('results').
SaveResolves(i, success) ==
    /\ i \in 1..Len(saves) /\ ~crashed
    /\ saves' = RemoveAt(saves, i)
    /\ IF success
       THEN /\ db' = [db EXCEPT ![saves[i].user] = Some(saves[i].row)]
            /\ assessmentData' = Some(saves[i].row)
            /\ effectDue' = TRUE
       ELSE UNCHANGED <<db, assessmentData, effectDue>>
    /\ appState' = "results"
    /\ UNCHANGED <<selectedRole, scoringResult, parentMetadata, user, isAuthenticated,
                   patientId, excelAnswers, excelData, showResetDialog,
                   loadingAssessmentData, crashed>>
    /\ UNCHANGED <<toast, questionnaireVars>>

handleResultsClose ==
    /\ Rendered /\ appState = "results" /\ ~IsNull(scoringResult)
    /\ appState' = "dashboard"
    /\ UNCHANGED <<selectedRole, scoringResult, parentMetadata, user, isAuthenticated,
                   patientId, excelAnswers, excelData, showResetDialog, assessmentData,
                   loadingAssessmentData, effectDue, db, saves, crashed>>
    /\ UNCHANGED <<toast, questionnaireVars>>

handleBackToHomeFromResults ==
    /\ Rendered /\ appState = "results" /\ ~IsNull(scoringResult)
    /\ appState' = "role-selection"
    /\ selectedRole' = Null
    /\ scoringResult' = Null
    /\ parentMetadata' = Null
    /\ excelAnswers' = <<>>
    /\ excelData' = Null
    /\ UNCHANGED <<user, isAuthenticated, patientId, showResetDialog, assessmentData,
                   loadingAssessmentData, effectDue, db, saves, crashed>>
    /\ UNCHANGED <<toast, questionnaireVars>>

\* PatientIdEntry's onBack and the footer's "Start New Assessment"
handleBackToRoles ==
    /\ Rendered
    /\ \/ appState = "patient-id" /\ ~IsNull(selectedRole)
       \/ appState \in {"dashboard", "calm-zone"}
    /\ selectedRole' = Null
    /\ appState' = "role-selection"
    /\ scoringResult' = Null
    /\ parentMetadata' = Null
    /\ excelAnswers' = <<>>
    /\ excelData' = Null
    /\ UNCHANGED <<user, isAuthenticated, patientId, showResetDialog, assessmentData,
                   loadingAssessmentData, effectDue, db, saves, crashed>>
    /\ UNCHANGED <<toast, questionnaireVars>>

handleNavigateToCalmZone ==
    /\ Rendered /\ appState = "dashboard"
    /\ ~IsNull(scoringResult) /\ ~IsNull(selectedRole)
    /\ appState' = "calm-zone"
    /\ UNCHANGED <<selectedRole, scoringResult, parentMetadata, user, isAuthenticated,
                   patientId, excelAnswers, excelData, showResetDialog, assessmentData,
                   loadingAssessmentData, effectDue, db, saves, crashed>>
    /\ UNCHANGED <<toast, questionnaireVars>>

handleBackToDashboard ==
    /\ Rendered /\ appState = "calm-zone"
    /\ appState' = "dashboard"
    /\ UNCHANGED <<selectedRole, scoringResult, parentMetadata, user, isAuthenticated,
                   patientId, excelAnswers, excelData, showResetDialog, assessmentData,
                   loadingAssessmentData, effectDue, db, saves, crashed>>
    /\ UNCHANGED <<toast, questionnaireVars>>

----------------------------------------------------------------------------
\* The page from construction, driven with the App inputs

Next ==
    \/ \E u \in Users : handleAuthSuccess(u)
    \/ LoadAssessmentData
    \/ ReloadEffect
    \/ handleLogout
    \/ openResetDialog
    \/ cancelResetDialog
    \/ \E success \in BOOLEAN : handleResetData(success)
    \/ \E role \in Roles : handleRoleSelection(role)
    \/ \E pid \in PatientIds : handlePatientIdConfirm(pid)
    \/ \E answers \in AppExcelAnswers : handleExcelComplete(answers, Null)
    \/ excelUploadBack
    \/ questionnaireBack
    \/ \E metadata \in AppMetadata :
         \E answers \in AppAnswers(IF IsNull(selectedRole) THEN "individual"
                                   ELSE Val(selectedRole)) :
            handleQuestionnaireComplete(answers, metadata)
    \/ \E i \in 1..MaxInFlight, success \in BOOLEAN : SaveResolves(i, success)
    \/ handleResultsClose
    \/ handleBackToHomeFromResults
    \/ handleBackToRoles
    \/ handleNavigateToCalmZone
    \/ handleBackToDashboard

Spec == Init /\ [][Next]_vars

----------------------------------------------------------------------------
\* One assessment, driven with every non-empty answer set and every model score: a
\* signed-in account without a stored row has chosen a role and confirmed the
\* patient id; the questionnaire is completed, the result is saved, and the
\* reload effect runs on the stored row.

ScoringAnswers(role) == AnswerSets(QuestionsFor(role), AnswerValues) \ {<<>>}

ProbeAnswers(role) ==
    (AppAnswers(role) \ {<<>>}) \cup {[q \in Range(QuestionsFor(role)) |-> "never"]}

ModelScores == (0 - ScoreMargin)..(100 + ScoreMargin)

\* Confidences a prediction may carry: none, 0, one inside the range, and one
\* beyond each end of it.
Confidences ==
    {Null, Some(0), Some(90), Some(0 - ConfidenceMargin), Some(100 + ConfidenceMargin)}

ProbeScores == {0 - ScoreMargin, 0, 40, 100 + ScoreMargin}

ScoringMetadata ==
    {Null, Some(Metadata(Null))}
      \cup {Some(Metadata(Some(Prediction(score, Some(90))))) : score \in ModelScores}
      \cup {Some(Metadata(Some(Prediction(score, confidence)))) :
               score \in ProbeScores, confidence \in Confidences}

ScoringInputs(role) ==
    (ScoringAnswers(role) \X AppMetadata) \cup (ProbeAnswers(role) \X ScoringMetadata)

InitScoring ==
    /\ appState = "questionnaire"
    /\ selectedRole \in {Some(role) : role \in Roles}
    /\ scoringResult = Null
    /\ parentMetadata = Null
    /\ user \in {Some(u) : u \in Users}
    /\ isAuthenticated = TRUE
    /\ patientId \in PatientIds
    /\ excelAnswers = <<>>
    /\ excelData = Null
    /\ showResetDialog = FALSE
    /\ assessmentData = Null
    /\ loadingAssessmentData = FALSE
    /\ effectDue = FALSE
    /\ db = [u \in Users |-> Null]
    /\ saves = <<>>
    /\ crashed = FALSE
    /\ toast = Null
    /\ questionnaire = <<>>
    /\ called = <<>>

NextScoring ==
    \/ \E input \in ScoringInputs(IF IsNull(selectedRole) THEN "individual"
                                  ELSE Val(selectedRole)) :
          IsNull(scoringResult) /\ handleQuestionnaireComplete(input[1], input[2])
    \/ \E i \in 1..MaxInFlight, success \in BOOLEAN : SaveResolves(i, success)
    \/ handleResultsClose
    \/ ReloadEffect

SpecScoring == InitScoring /\ [][NextScoring]_vars

----------------------------------------------------------------------------
\* Questionnaire (the component): its props role and questions and its state
\* currentStep, answers and metadata, kept in one record while it is mounted.

ChildNames == {"", "Alex"}
ChildAges == {"", "5 years"}

\* The question lists the component is mounted with: the non-empty prefixes of
\* the role's list.
QuestionLists(role) ==
    {SubSeq(QuestionsFor(role), 1, n) : n \in 1..Len(QuestionsFor(role))}

\* role === 'parent' ? questions.length + 1 : questions.length
totalSteps(q) ==
    IF q.role = "parent" THEN Len(q.questions) + 1 ELSE Len(q.questions)

\* questions[currentStep - 1], undefined outside the list.
currentQuestion(q) ==
    IF q.currentStep \in 1..Len(q.questions)
    THEN Some(q.questions[q.currentStep]) ELSE Null

\* Mutant: a question's step may be left without an answer.
canProceed_unanswered(q) ==
    IF q.role = "parent" /\ q.currentStep = 0
    THEN q.metadata.childName # "" /\ q.metadata.childAge # ""
    ELSE TRUE

canProceed(q) ==
    IF q.role = "parent" /\ q.currentStep = 0
    THEN q.metadata.childName # "" /\ q.metadata.childAge # ""
    ELSE IF q.currentStep > 0 /\ q.currentStep <= Len(q.questions)
    THEN ~IsNull(currentQuestion(q)) /\ Val(currentQuestion(q)) \in DOMAIN q.answers
    ELSE TRUE

\* What the card shows below its header.
displayed(q) ==
    IF q.role = "parent" /\ q.currentStep = 0 THEN <<"Child Information">>
    ELSE IF ~IsNull(currentQuestion(q)) THEN <<"question", Val(currentQuestion(q))>>
    ELSE <<>>

\* The component takes events until it has called the page back.
Mounted == ~IsNull(questionnaire) /\ IsNull(called)

\* The page in the questionnaire state mounts the component for a role.
InitQuestionnaire ==
    /\ appState = "questionnaire"
    /\ selectedRole \in {Some(role) : role \in Roles}
    /\ scoringResult = Null
    /\ parentMetadata = Null
    /\ user \in {Some(u) : u \in Users}
    /\ isAuthenticated = TRUE
    /\ patientId \in PatientIds
    /\ excelAnswers = <<>>
    /\ excelData = Null
    /\ showResetDialog = FALSE
    /\ assessmentData = Null
    /\ loadingAssessmentData = FALSE
    /\ effectDue = FALSE
    /\ db = [u \in Users |-> Null]
    /\ saves = <<>>
    /\ crashed = FALSE
    /\ toast = Null
    /\ questionnaire \in
         {Some([role        |-> Val(selectedRole),
                questions   |-> questions,
                currentStep |-> IF Val(selectedRole) = "parent" THEN 0 ELSE 1,
                answers     |-> <<>>,
                metadata    |-> [childName |-> "", childAge |-> ""]]) :
            questions \in QuestionLists(Val(selectedRole))}
    /\ called = Null

\* The inputs of the information step.
setChildName(name) ==
    /\ Mounted
    /\ Val(questionnaire).role = "parent" /\ Val(questionnaire).currentStep = 0
    /\ questionnaire' = Some([Val(questionnaire) EXCEPT !.metadata.childName = name])
    /\ UNCHANGED <<called, pageVars>>

setChildAge(age) ==
    /\ Mounted
    /\ Val(questionnaire).role = "parent" /\ Val(questionnaire).currentStep = 0
    /\ questionnaire' = Some([Val(questionnaire) EXCEPT !.metadata.childAge = age])
    /\ UNCHANGED <<called, pageVars>>

\* A radio option of the question on display is chosen.
handleAnswer(value) ==
    /\ Mounted
    /\ displayed(Val(questionnaire)) # <<>>
    /\ Head(displayed(Val(questionnaire))) = "question"
    /\ LET q          == Val(questionnaire)
           questionId == Val(currentQuestion(q))
       IN  questionnaire' =
             Some([q EXCEPT !.answers =
                     [id \in DOMAIN q.answers \cup {questionId} |->
                         IF id = questionId THEN value ELSE q.answers[id]]])
    /\ UNCHANGED <<called, pageVars>>

\* The Next / Complete button, disabled unless canProceed().
handleNext ==
    /\ Mounted
    /\ canProceed(Val(questionnaire))
    /\ LET q == Val(questionnaire) IN
       IF q.currentStep = totalSteps(q)
       THEN /\ called' = Some([callback |-> "onComplete",
                               answers  |-> q.answers,
                               metadata |-> IF q.role = "parent"
                                            THEN Some(q.metadata) ELSE Null])
            /\ UNCHANGED questionnaire
       ELSE /\ questionnaire' = Some([q EXCEPT !.currentStep = q.currentStep + 1])
            /\ UNCHANGED called
    /\ UNCHANGED pageVars

\* The Back / Previous buttons.
handlePrevious ==
    /\ Mounted
    /\ LET q == Val(questionnaire) IN
       IF q.currentStep > 1
       THEN /\ questionnaire' = Some([q EXCEPT !.currentStep = q.currentStep - 1])
            /\ UNCHANGED called
       ELSE /\ called' = Some([callback |-> "onBack"])
            /\ UNCHANGED questionnaire
    /\ UNCHANGED pageVars

NextQuestionnaire ==
    \/ \E name \in ChildNames : setChildName(name)
    \/ \E age \in ChildAges : setChildAge(age)
    \/ \E value \in AnswerValues : handleAnswer(value)
    \/ handleNext
    \/ handlePrevious

SpecQuestionnaire == InitQuestionnaire /\ [][NextQuestionnaire]_vars

----------------------------------------------------------------------------
\* Scheduling: the promise of a save that was started settles, and the handler
\* that awaits it continues.

Fairness ==
    WF_vars(\E i \in 1..MaxInFlight, success \in BOOLEAN : SaveResolves(i, success))

SpecLive == Spec /\ Fairness

----------------------------------------------------------------------------
\* Properties

\* The score a stored result's severity is to be derived from.
authoritativeScore(result) ==
    IF IsNull(result.fusedScore) THEN result.normalizedScore ELSE Val(result.fusedScore)

\* C1: in every ScoringResult the page stores, severity and severityLabel are
\* the classification of the fused score when there is one, and of the
\* normalized score otherwise.
C1_SeverityOfAuthoritativeScore ==
    ~IsNull(scoringResult) =>
        /\ Val(scoringResult).severity
             = classify(authoritativeScore(Val(scoringResult))).level
        /\ Val(scoringResult).severityLabel
             = classify(authoritativeScore(Val(scoringResult))).label

\* A completed result whose fused score lies in another band than its
\* normalized score.
C1_Witness ==
    /\ ~IsNull(scoringResult)
    /\ appState = "results"
    /\ ~IsNull(Val(scoringResult).fusedScore)
    /\ classify(Val(Val(scoringResult).fusedScore)).level
         # classify(Val(scoringResult).normalizedScore).level

\* C2: the stored result of a completed questionnaire has normalizedScore in
\* 0..100 and, when present, fusedScore in 0..100, whatever the answers, the
\* family-history flag and the model score.
C2_ScoresInRange ==
    ~IsNull(scoringResult) =>
        /\ Val(scoringResult).normalizedScore \in 0..100
        /\ ~IsNull(Val(scoringResult).fusedScore)
             => Val(Val(scoringResult).fusedScore) \in 0..100

\* A completion of a parent who answered par_20 with "always", with a model
\* score above 100, is in flight.
C2_Witness ==
    /\ ~IsNull(scoringResult)
    /\ \E i \in 1..Len(saves) :
         /\ saves[i].row.role = "parent"
         /\ hasFamilyHistory("parent", Val(saves[i].row.last_assessment_answers))
         /\ ~IsNull(saves[i].row.model_score)
         /\ Val(saves[i].row.model_score) > 100

\* C3: a questionnaire completed without a video prediction stores a fused
\* score equal to the normalized score.
C3_FusionNoOpWithoutPrediction ==
    \A i \in 1..Len(saves) :
        IsNull(VideoPredictionOf(saves[i].row.child_data)) =>
            /\ ~IsNull(scoringResult)
            /\ Val(scoringResult).fusedScore = Some(Val(scoringResult).normalizedScore)
            /\ saves[i].row.fused_score = saves[i].row.questionnaire_score

\* A completion without a video prediction is in flight, with a score that a
\* blend with a model score of 0 would have lowered.
C3_Witness ==
    \E i \in 1..Len(saves) :
        /\ IsNull(VideoPredictionOf(saves[i].row.child_data))
        /\ saves[i].row.fused_score = Some(50)

\* C4: with a video prediction whose score s lies in 0..100 (0 included), the
\* stored fused score is round-half-up(0.6 * q + 0.4 * s).
C4_BlendForEverySuppliedScore ==
    \A i \in 1..Len(saves) :
        LET prediction == VideoPredictionOf(saves[i].row.child_data) IN
        (~IsNull(prediction) /\ Val(prediction).prediction_score \in 0..100) =>
            /\ ~IsNull(scoringResult)
            /\ Val(scoringResult).fusedScore
                 = Some((6 * Val(scoringResult).normalizedScore
                           + 4 * Val(prediction).prediction_score + 5) \div 10)

\* C5: the result the reload effect rebuilds from the saved row of the
\* assessment on show equals the result on show.
C5_ReloadRoundTrip ==
    [][(/\ effectDue
        /\ appState = "results"
        /\ ~IsNull(scoringResult)
        /\ ~IsNull(assessmentData)
        /\ ~IsNull(scoringResult'))
       => scoringResult' = scoringResult]_vars

\* The sum of normalize(value) * weight, and of the weights, over the answered
\* questions of an answer object.
RECURSIVE contributionsOf(_, _, _)
contributionsOf(answers, weights, questions) ==
    IF questions = {} THEN 0
    ELSE LET q == CHOOSE q \in questions : TRUE
         IN  normalize(answers[q]) * weights[q]
               + contributionsOf(answers, weights, questions \ {q})

RECURSIVE weightsOf(_, _)
weightsOf(weights, questions) ==
    IF questions = {} THEN 0
    ELSE LET q == CHOOSE q \in questions : TRUE
         IN  weights[q] + weightsOf(weights, questions \ {q})

\* C6: without the family-history adjustment, the normalized score n of a
\* completed questionnaire is sum / weightSum / 4 * 100 rounded half-up, the
\* sums taken over the answered questions only: n - 1/2 <= 100 S / (4 W) <
\* n + 1/2. With weights ind_1 = ind_2 = 1, {ind_1: always, ind_2: never}
\* scores 50 and {ind_1: always} alone scores 100.
C6_AnsweredOnlyAggregate ==
    \A i \in 1..Len(saves) :
        LET row     == saves[i].row
            answers == Val(row.last_assessment_answers)
            weights == getQuestionWeights(row.role)
            S       == contributionsOf(answers, weights, DOMAIN answers)
            W       == weightsOf(weights, DOMAIN answers)
            n       == Val(row.questionnaire_score)
        IN  ~hasFamilyHistory(row.role, answers) =>
              /\ 200 * S >= (2 * n - 1) * 4 * W
              /\ 200 * S <  (2 * n + 1) * 4 * W
              /\ (row.role = "individual"
                    /\ answers = [ind_1 |-> "always", ind_2 |-> "never"]) => n = 50
              /\ (row.role = "individual" /\ answers = [ind_1 |-> "always"]) => n = 100

\* The completion of {ind_1: always} alone is in flight with a score of 100.
C6_Witness ==
    \E i \in 1..Len(saves) :
        /\ saves[i].row.role = "individual"
        /\ saves[i].row.last_assessment_answers = Some([ind_1 |-> "always"])
        /\ saves[i].row.questionnaire_score = Some(100)

\* The answer object with one more question answered.
withAnswer(answers, question, value) ==
    [q \in DOMAIN answers \cup {question} |->
        IF q = question THEN value ELSE answers[q]]

\* aggregate over an answer object, under a given adjustment flag.
aggregateOf(answers, role, flag) ==
    aggregate(ObjectEntries(answers), getQuestionWeights(role), flag)

\* C7 as stated: the score of an answer set A is not lower than the score of A
\* plus an unanswered question answered with any label other than "never", and
\* not higher than the score of A plus that question answered "never".
C7_OmittingAsStated ==
    \A i \in 1..Len(saves) :
        LET row     == saves[i].row
            answers == Val(row.last_assessment_answers)
            flag    == hasFamilyHistory(row.role, answers)
            n       == Val(row.questionnaire_score)
        IN  \A x \in Range(QuestionsFor(row.role)) \ DOMAIN answers :
              /\ \A v \in AnswerValues \ {"never"} :
                    n >= aggregateOf(withAnswer(answers, x, v), row.role, flag)
              /\ n <= aggregateOf(withAnswer(answers, x, "never"), row.role, flag)

\* C7 (amended): the score of an answer set A is not lower than the score of A
\* plus an unanswered question answered "never", and not higher than the score
\* of A plus that question answered "always".
C7_OmittingBetweenNeverAndAlways ==
    \A i \in 1..Len(saves) :
        LET row     == saves[i].row
            answers == Val(row.last_assessment_answers)
            flag    == hasFamilyHistory(row.role, answers)
            n       == Val(row.questionnaire_score)
        IN  \A x \in Range(QuestionsFor(row.role)) \ DOMAIN answers :
              /\ n >= aggregateOf(withAnswer(answers, x, "never"), row.role, flag)
              /\ n <= aggregateOf(withAnswer(answers, x, "always"), row.role, flag)

\* A partly answered set is in flight whose score answering the open question
\* "never" would strictly lower and answering it "always" would strictly raise.
C7_Witness ==
    \E i \in 1..Len(saves) :
        LET row     == saves[i].row
            answers == Val(row.last_assessment_answers)
            flag    == hasFamilyHistory(row.role, answers)
            n       == Val(row.questionnaire_score)
        IN  \E x \in Range(QuestionsFor(row.role)) \ DOMAIN answers :
              /\ n > aggregateOf(withAnswer(answers, x, "never"), row.role, flag)
              /\ n < aggregateOf(withAnswer(answers, x, "always"), row.role, flag)

Bands == <<"low", "mild", "moderate", "high">>

bandIndex(level) == CHOOSE i \in 1..Len(Bands) : Bands[i] = level

\* C8: the severity the page stores for a fused score is monotonic against
\* classify: no lower score has a higher band and no higher score a lower band.
C8_SeverityMonotonic ==
    ~IsNull(scoringResult) =>
        LET result == Val(scoringResult)
            f      == authoritativeScore(result)
        IN  \A s \in 0..100 :
              /\ s < f => bandIndex(getSeverityFromScore(s).level)
                            <= bandIndex(result.severity)
              /\ s > f => bandIndex(getSeverityFromScore(s).level)
                            >= bandIndex(result.severity)

\* A stored result in a middle band: lower scores reach a lower band and higher
\* scores a higher one.
C8_Witness ==
    /\ ~IsNull(scoringResult)
    /\ Val(scoringResult).severity = "moderate"
    /\ \E s \in 0..100 : s < authoritativeScore(Val(scoringResult))
                         /\ getSeverityFromScore(s).level = "low"
    /\ \E s \in 0..100 : s > authoritativeScore(Val(scoringResult))
                         /\ getSeverityFromScore(s).level = "high"

\* C9: classify is total on 0..100 with four non-empty, contiguous bands; the
\* band stored for a fused score is the one whose range holds the score, and a
\* boundary score belongs to the band it opens, never to the one below.
C9_BandsPartition ==
    /\ \A s \in 0..100 : classify(s).level \in Range(Bands)
    /\ \A b \in Range(Bands) : \E s \in 0..100 : classify(s).level = b
    /\ \A s \in 1..100 :
          classify(s).level # classify(s - 1).level =>
             /\ bandIndex(classify(s).level) = bandIndex(classify(s - 1).level) + 1
             /\ s \in {MildFrom, ModerateFrom, HighFrom}
    /\ ~IsNull(scoringResult) =>
          LET result == Val(scoringResult)
              f      == authoritativeScore(result)
          IN  /\ result.severity \in Range(Bands)
              /\ \A s \in 0..100 :
                    classify(s).level = result.severity =>
                       \A t \in Min(s, f)..Max(s, f) : classify(t).level = result.severity
              /\ f = MildFrom => result.severity = "mild"
              /\ f = MildFrom - 1 => result.severity = "low"
              /\ f = ModerateFrom => result.severity = "moderate"
              /\ f = ModerateFrom - 1 => result.severity = "mild"
              /\ f = HighFrom => result.severity = "high"
              /\ f = HighFrom - 1 => result.severity = "moderate"

\* A stored result whose fused score is exactly the first score of a band.
C9_Witness ==
    /\ ~IsNull(scoringResult)
    /\ ~IsNull(Val(scoringResult).fusedScore)
    /\ Val(Val(scoringResult).fusedScore) = HighFrom
    /\ Val(scoringResult).severity = "high"

questionOrder(questionId) ==
    CHOOSE i \in 1..Len(individualQuestions \o parentQuestions) :
        (individualQuestions \o parentQuestions)[i] = questionId

\* What C11 asks of the topContributors of a result computed from an answer
\* object under a role's weight table.
contributorsWellFormed(top, answers, role) ==
    LET weights == getQuestionWeights(role)
        c(i)    == normalize(answers[top[i].question]) * weights[top[i].question]
    IN  /\ Len(top) <= TopK
        /\ \A i \in 1..Len(top) : top[i].question \in DOMAIN answers
        /\ \A i, j \in 1..Len(top) :
              i < j => /\ c(i) >= c(j)
                       /\ c(i) = c(j) => questionOrder(top[i].question)
                                           < questionOrder(top[j].question)

\* C11: topContributors of a stored result has at most K entries, names only
\* answered questions, and is ordered by non-increasing normalize(value) *
\* weight, equal contributions in original question order.
C11_TopContributorsCappedAndOrdered ==
    \A i \in 1..Len(saves) :
        /\ ~IsNull(scoringResult)
        /\ contributorsWellFormed(Val(scoringResult).topContributors,
                                  Val(saves[i].row.last_assessment_answers),
                                  saves[i].row.role)

\* A completion with more answered questions than K is in flight, and the two
\* contributors listed have equal contributions.
C11_Witness ==
    \E i \in 1..Len(saves) :
        LET answers == Val(saves[i].row.last_assessment_answers)
            weights == getQuestionWeights(saves[i].row.role)
            top     == Val(scoringResult).topContributors
        IN  /\ Cardinality(DOMAIN answers) > TopK
            /\ Len(top) = TopK
            /\ normalize(answers[top[1].question]) * weights[top[1].question]
                 = normalize(answers[top[2].question]) * weights[top[2].question]
            /\ normalize(answers[top[1].question]) > 0

\* C12: the normalized score a completion stores is the aggregate with the
\* family-history adjustment exactly when the role is parent and par_20 was
\* answered "always", and the unadjusted aggregate in every other case
\* (another role, par_20 unanswered or answered with another label).
C12_FamilyHistoryFlagFromAnswers ==
    \A i \in 1..Len(saves) :
        LET row     == saves[i].row
            answers == Val(row.last_assessment_answers)
            raw     == rawAggregate(ObjectEntries(answers), getQuestionWeights(row.role))
            n       == Val(row.questionnaire_score)
        IN  /\ ~IsNull(scoringResult)
            /\ Val(scoringResult).normalizedScore = n
            /\ IF row.role = "parent"
                  /\ \E q \in DOMAIN answers : q = "par_20" /\ answers[q] = "always"
               THEN n = Min(100, raw + FamilyHistoryBoost)
               ELSE n = raw

\* A parent's completion with par_20 answered "always" is in flight, its score
\* above the unadjusted aggregate.
C12_Witness ==
    \E i \in 1..Len(saves) :
        LET row     == saves[i].row
            answers == Val(row.last_assessment_answers)
        IN  /\ row.role = "parent"
            /\ "par_20" \in DOMAIN answers
            /\ answers["par_20"] = "always"
            /\ Val(row.questionnaire_score)
                 > rawAggregate(ObjectEntries(answers), getQuestionWeights(row.role))

\* A step that leaves a result on the page without a questionnaire having been
\* completed in it: closing the results view, entering or leaving the calm
\* zone, a save resolving, a run of the reload effect.
laterEvent ==
    /\ ~IsNull(scoringResult)
    /\ ~IsNull(Val(scoringResult).fusedScore)
    /\ ~IsNull(scoringResult')
    /\ Len(saves') <= Len(saves)

\* C13: once a result carries its fused score and fused severity, no later
\* event sets them again or reverts them, and none re-runs the questionnaire
\* aggregation: the fused score, the severity and the aggregate of the result
\* on the page stay as they were set.
C13_AmendedAtMostOnce ==
    [][laterEvent =>
          /\ Val(scoringResult').fusedScore = Val(scoringResult).fusedScore
          /\ Val(scoringResult').severity = Val(scoringResult).severity
          /\ Val(scoringResult').severityLabel = Val(scoringResult).severityLabel
          /\ Val(scoringResult').normalizedScore = Val(scoringResult).normalizedScore
          /\ Val(scoringResult').topContributors = Val(scoringResult).topContributors]_vars

\* C14: the row a completion hands to saveAssessmentData holds the answer
\* object and three scores that agree with the result on the page: the
\* normalized score, the fused score, and the model score supplied with the
\* video prediction, which is null exactly when no prediction was supplied.
C14_SavedScoresAgreeWithResult ==
    \A i \in 1..Len(saves) :
        LET row        == saves[i].row
            prediction == VideoPredictionOf(row.child_data)
        IN  /\ ~IsNull(scoringResult)
            /\ ~IsNull(row.last_assessment_answers)
            /\ row.questionnaire_score = Some(Val(scoringResult).normalizedScore)
            /\ row.fused_score = Val(scoringResult).fusedScore
            /\ IsNull(row.model_score) <=> IsNull(prediction)
            /\ ~IsNull(prediction) =>
                  row.model_score = Some(Val(prediction).prediction_score)

\* A video prediction whose score or confidence lies outside its range.
malformed(prediction) ==
    \/ prediction.prediction_score \notin 0..100
    \/ /\ ~IsNull(prediction.confidence)
       /\ Val(prediction.confidence) \notin 0..100

\* C15: a malformed video prediction never blocks a result: while the
\* questionnaire is open its completion raises no error for any such
\* prediction, and the result it stores is
\* complete, with a fused score in 0..100; for a score outside 0..100 it is
\* the blend with the score clamped into 0..100.
C15_MalformedPredictionNeverBlocks ==
    /\ (appState = "questionnaire" /\ IsNull(scoringResult)) =>
          \A score \in ProbeScores, confidence \in Confidences :
             malformed(Prediction(score, confidence)) =>
                \A answers \in ProbeAnswers(Val(selectedRole)) :
                   completeResult(Val(selectedRole), answers,
                                  Some(Metadata(Some(Prediction(score, confidence))))).ok
    /\ \A i \in 1..Len(saves) :
          LET prediction == VideoPredictionOf(saves[i].row.child_data) IN
          (~IsNull(prediction) /\ malformed(Val(prediction))) =>
             /\ ~IsNull(scoringResult)
             /\ DOMAIN Val(scoringResult)
                  = {"normalizedScore", "fusedScore", "severity", "severityLabel",
                     "topContributors"}
             /\ ~IsNull(Val(scoringResult).fusedScore)
             /\ Val(Val(scoringResult).fusedScore) \in 0..100
             /\ Val(prediction).prediction_score \notin 0..100 =>
                   Val(Val(scoringResult).fusedScore)
                     = (6 * Val(scoringResult).normalizedScore
                          + 4 * Clamp(Val(prediction).prediction_score, 0, 100) + 5)
                       \div 10
             /\ Val(scoringResult).severity \in {"low", "mild", "moderate", "high"}
             /\ Len(Val(scoringResult).topContributors) >= 1

\* A completion whose prediction has both a score above 100 and a confidence
\* above 1 is in flight, with a result on the page.
C15_Witness ==
    /\ ~IsNull(scoringResult)
    /\ \E i \in 1..Len(saves) :
          LET prediction == VideoPredictionOf(saves[i].row.child_data) IN
          /\ ~IsNull(prediction)
          /\ Val(prediction).prediction_score > 100
          /\ ~IsNull(Val(prediction).confidence)
          /\ Val(Val(prediction).confidence) > 100
          /\ Val(scoringResult).normalizedScore = 100

\* C16: the confidence does not influence the fused score: the fused score a
\* completion stores for a prediction is the one it would store for the same
\* answers and the same model score under every other confidence, absent
\* included, and it is the fusion of the normalized score and the model score
\* under any confidence.
C16_ConfidenceDoesNotInfluenceFusion ==
    \A i \in 1..Len(saves) :
        LET row        == saves[i].row
            prediction == VideoPredictionOf(row.child_data)
            answers    == Val(row.last_assessment_answers)
        IN  ~IsNull(prediction) =>
              /\ ~IsNull(scoringResult)
              /\ \A confidence \in Confidences :
                    /\ completeResult(row.role, answers,
                          Some(Metadata(Some(Prediction(Val(prediction).prediction_score,
                                                        confidence))))).value.fusedScore
                         = Val(scoringResult).fusedScore
                    /\ Some(calculateFusedScore(Val(scoringResult).normalizedScore,
                                                modelScoreOf(prediction),
                                                IF IsNull(confidence)
                                                THEN Some(DefaultConfidencePct)
                                                ELSE confidence))
                         = Val(scoringResult).fusedScore

\* A completion whose prediction carries the confidence 0 is in flight, and
\* the model score has moved the fused score away from the normalized score.
C16_Witness ==
    /\ ~IsNull(scoringResult)
    /\ \E i \in 1..Len(saves) :
          LET prediction == VideoPredictionOf(saves[i].row.child_data) IN
          /\ ~IsNull(prediction)
          /\ Val(prediction).confidence = Some(0)
          /\ Val(prediction).prediction_score = 40
          /\ Val(scoringResult).fusedScore # Some(Val(scoringResult).normalizedScore)

\* C17: the confidence a completion hands to the fusion is the confidence
\* supplied with the video prediction whenever one is supplied, 0 included,
\* and the default confidence only when the prediction carries none.
C17_SuppliedConfidenceHandedToFusion ==
    \A i \in 1..Len(saves) :
        LET prediction == VideoPredictionOf(saves[i].row.child_data) IN
        ~IsNull(prediction) =>
            saves[i].modelConfidence
              = IF IsNull(Val(prediction).confidence)
                THEN Some(DefaultConfidencePct)
                ELSE Val(prediction).confidence

\* C18: every completion eventually puts the page in the results state with
\* the result it computed, whatever the outcome of the save: a save in flight
\* leads to the results state, and the step in which a save resolves enters
\* the results state with the result of that completion on the page.
C18_ResultsAlwaysShown ==
    /\ (saves # <<>>) ~> (appState = "results" /\ ~IsNull(scoringResult))
    /\ [][Len(saves') < Len(saves) =>
            /\ appState' = "results"
            /\ \E i \in 1..Len(saves) : scoringResult' = Some(saves[i].result)]_vars

\* C19: a run of the reload effect changes appState or replaces scoringResult
\* only when loading has finished and the stored assessment is marked
\* complete, and never while the page is in the questionnaire or the results
\* state, also when the save of the assessment just taken changed the stored
\* assessment data.
C19_RedirectOnlyInLoginFlow ==
    [][(/\ effectDue
        /\ ~effectDue'
        /\ (appState' # appState \/ scoringResult' # scoringResult))
       => /\ ~loadingAssessmentData
          /\ hasExistingData
          /\ Val(assessmentData).assessment_complete
          /\ appState \notin {"questionnaire", "results"}]_vars

\* C20: while the account's stored assessment data is for a role R, the page
\* is never in the patient-id, excel-upload or questionnaire state with a
\* selected role other than R.
C20_RoleLock ==
    (hasExistingData /\ appState \in {"patient-id", "excel-upload", "questionnaire"})
        => selectedRole = Some(Val(assessmentData).role)

\* A role other than the stored one was selected: the selection is recorded
\* and the page stays on the role selection.
C20_Witness ==
    /\ hasExistingData
    /\ appState = "role-selection"
    /\ ~IsNull(selectedRole)
    /\ selectedRole # Some(Val(assessmentData).role)

\* C21: the page is in the excel-upload state only while the selected role is
\* clinician; a clinician enters the questionnaire state only from the
\* excel-upload state; an individual or a parent who goes on from the patient
\* id goes directly to the questionnaire.
C21_ClinicianUploadsFirst ==
    /\ [](appState = "excel-upload" => selectedRole = Some("clinician"))
    /\ [][(appState # "questionnaire" /\ appState' = "questionnaire"
             /\ selectedRole' = Some("clinician"))
          => appState = "excel-upload"]_vars
    /\ [][(appState = "patient-id"
             /\ selectedRole \in {Some("individual"), Some("parent")}
             /\ appState' \notin {"patient-id", "role-selection", "results"})
          => appState' = "questionnaire"]_vars

\* A clinician is in the questionnaire with the answers imported from the
\* spreadsheet.
C21_Witness ==
    /\ appState = "questionnaire"
    /\ selectedRole = Some("clinician")
    /\ excelAnswers # <<>>
    /\ IsNull(scoringResult)

\* C22: Questionnaire calls onComplete only with a completed answer set: every
\* question of its list has an answer from the five labels, and for the
\* parent role the child's name and age handed over are non-empty.
C22_OnCompleteWithCompletedAnswers ==
    (~IsNull(called) /\ Val(called).callback = "onComplete") =>
        LET q == Val(questionnaire) IN
        /\ \A i \in 1..Len(q.questions) :
              /\ q.questions[i] \in DOMAIN Val(called).answers
              /\ Val(called).answers[q.questions[i]]
                   \in {"never", "rarely", "sometimes", "often", "always"}
        /\ q.role = "parent" =>
              /\ ~IsNull(Val(called).metadata)
              /\ Val(Val(called).metadata).childName # ""
              /\ Val(Val(called).metadata).childAge # ""

\* A parent has completed a questionnaire of three questions.
C22_Witness ==
    /\ ~IsNull(called)
    /\ Val(called).callback = "onComplete"
    /\ Val(questionnaire).role = "parent"
    /\ Len(Val(questionnaire).questions) = 3

\* C26: currentStep stays between its initial value (0 for a parent, 1
\* otherwise) and totalSteps, and at every step k with 1 <= k <= totalSteps
\* exactly one question is on display, the k-th of the list.
C26_StepInRangeShowsItsQuestion ==
    ~IsNull(questionnaire) =>
        LET q == Val(questionnaire) IN
        /\ q.currentStep >= (IF q.role = "parent" THEN 0 ELSE 1)
        /\ q.currentStep <= totalSteps(q)
        /\ (1 <= q.currentStep /\ q.currentStep <= totalSteps(q)) =>
              /\ q.currentStep \in 1..Len(q.questions)
              /\ displayed(q) = <<"question", q.questions[q.currentStep]>>

\* C23: a reset is all-or-nothing.  A handleResetData step whose
\* clearAssessmentData failed leaves the selected role, the scoring result, the
\* parent metadata, the patient ID, the imported answers and appState as they
\* were; one whose clearAssessmentData succeeded resets them to their initial
\* values with appState "role-selection"; either step closes the dialog.
C23_ResetAllOrNothing ==
    [][\A success \in BOOLEAN :
          handleResetData(success) =>
              /\ showResetDialog' = FALSE
              /\ IF success
                 THEN /\ selectedRole' = Null
                      /\ scoringResult' = Null
                      /\ parentMetadata' = Null
                      /\ patientId' = ""
                      /\ excelAnswers' = <<>>
                      /\ excelData' = Null
                      /\ appState' = "role-selection"
                 ELSE UNCHANGED <<selectedRole, scoringResult, parentMetadata,
                                  patientId, excelAnswers, excelData, appState>>]_vars

\* A reset that succeeded for a signed-in user who had a stored assessment of
\* this session: the row is gone and the page is back at the role selection.
C23_Witness ==
    /\ toast = Some("Data Reset")
    /\ ~IsNull(user) /\ IsNull(db[Val(user)])
    /\ ~showResetDialog
    /\ appState = "role-selection"
    /\ IsNull(selectedRole) /\ IsNull(scoringResult)
    /\ effectDue

\* C24: in every reachable state of the page the results and dashboard states
\* have a scoring result to render and the dashboard state has a selected
\* role, whatever the interleaving of logout, reset and a save in flight.
C24_ViewAlwaysRenderable ==
    /\ appState \in {"results", "dashboard"} => ~IsNull(scoringResult)
    /\ appState = "dashboard" => ~IsNull(selectedRole)

\* C25: once handleLogout has completed, and until a user authenticates again,
\* the user, the selected role, the scoring result, the parent metadata, the
\* patient ID and the imported answers are cleared and appState is
\* "role-selection".  The page is unauthenticated only before the first
\* sign-in, where these fields have the same initial values, and after a logout.
C25_LoggedOutStaysCleared ==
    ~isAuthenticated =>
        /\ IsNull(user)
        /\ IsNull(selectedRole)
        /\ IsNull(scoringResult)
        /\ IsNull(parentMetadata)
        /\ patientId = ""
        /\ excelAnswers = <<>>
        /\ appState = "role-selection"

\* ResultModal, the Dashboard's score card and its PDF summary print
\* result.normalizedScore next to result.severityLabel.
displayedScore(result) == result.normalizedScore

displayedSeverityLabel(result) == result.severityLabel

\* C27: wherever the page shows a stored result (results modal, dashboard and
\* its PDF summary), the severity band of the number displayed is the severity
\* label displayed next to it.
C27_DisplayedScoreMatchesLabel ==
    (appState \in {"results", "dashboard"} /\ ~IsNull(scoringResult)) =>
        getSeverityFromScore(displayedScore(Val(scoringResult))).label
            = displayedSeverityLabel(Val(scoringResult))
====
